---- MODULE Spec2Model ----
(***************************************************************************)
(* Model of the Tutorial session of lib/tutorial.ts: a Playwright page     *)
(* wrapper that highlights elements with a Driver.js overlay and narrates  *)
(* them with one of two text-to-speech backends.                           *)
(*                                                                         *)
(* Every `await` of the source is a point where other calls of the same    *)
(* session, page events and the clock may run, so every awaited page       *)
(* command is one action that fires when the command settles; the code     *)
(* between two awaits runs inside the action that ends the first await.    *)
(***************************************************************************)
EXTENDS Integers, Sequences, FiniteSets

(***************************************************************************)
(* Bounds of the model.                                                    *)
(***************************************************************************)
MaxCalls == 2        \* highlight()/speak() calls issued on the session
MaxClock == 2        \* largest value of Date.now()
MaxCallerWrites == 1 \* writes the caller makes to the array getAudioChunks() gave it

Calls == 1..MaxCalls
Texts == {"a"}
NoSpeech == "none"   \* options.speech absent or the empty string (falsy)
Backends == {"web-speech-api", "edge-tts"}

VARIABLES
  _active,         \* this._active
  _ttsBackend,     \* this._ttsBackend
  _injected,       \* this._injected
  _startTime,      \* this._startTime
  _audioChunks,    \* content of the array object held in this._audioChunks
  returned,       \* the array object the caller holds: "none" until
                  \* getAudioChunks() gave it one
  now,            \* Date.now()
  libLoaded,      \* window.driver is defined in the page's current document
  styleLoaded,    \* the driver.css style tag is in the page's current document
  tutorialDriver, \* window.__tutorialDriver: 0 (undefined) or the overlay stored
  overlays,       \* Driver.js overlays alive in the current document
  calls,          \* one record per highlight()/speak() call
  pageUsed,       \* a page command (wait, injection, evaluation) was ever issued
  everSet,        \* setStartTime() was called
  narrSeq,        \* number of narrations dispatched so far
  callerWrites,   \* number of writes the caller made to the returned array
  epochLoaded,    \* a load sequence succeeded since the last navigation event
                  \* of the main frame (or since construction)
  options,        \* the HighlightOptions given to _highlightElement
  driverCall,     \* what the overlay-creating evaluation gave Driver.js
  mpc,            \* position of the mergeAudioWithVideo call
  chunks,         \* its argument chunks
  probeResult,    \* outcome of the ffprobe subprocess
  videoDuration,  \* parseFloat(probeResult)
  tmpDir,         \* the directory made by mkdtempSync exists
  diskFiles,      \* the files in that directory
  tmpFiles,       \* the array tmpFiles (a file is named by its chunk index)
  cmd,            \* the ffmpeg command that was built
  ran,            \* the subprocesses that were invoked
  error,          \* the exception in flight: where it was thrown
  output,         \* the file at outputPath
  fpc,            \* position of the tutorialObj fixture function
  pageClosed,     \* page.close() resolved
  videoFile,      \* the file at videoPath (video-complete.webm)
  attached,       \* testInfo.attach('narrated-video', ...) resolved
  warned          \* console.warn('[tutorial] Failed to merge ...') was called

tutorialVars == <<_active, _ttsBackend, _injected, _startTime, _audioChunks, returned, now,
                  libLoaded, styleLoaded, tutorialDriver, overlays, calls, pageUsed,
                  everSet,
                  narrSeq, callerWrites, epochLoaded>>

\* the highlight step built by _highlightElement
stepVars == <<options, driverCall>>

\* a call of mergeAudioWithVideo and the file system it works on
mergerVars == <<mpc, chunks, probeResult, videoDuration, tmpDir, diskFiles, tmpFiles,
                cmd, ran, error, output>>

\* the tutorialObj fixture of fixtures.ts
fixtureVars == <<fpc, pageClosed, videoFile, attached, warned>>

\* what the steps of a session leave alone
offSession == <<stepVars, mergerVars, fixtureVars>>

vars == <<tutorialVars, stepVars, mergerVars, fixtureVars>>

sessionVars == <<_active, _ttsBackend, _injected, _startTime, _audioChunks>>
pageVars == <<libLoaded, styleLoaded, tutorialDriver, overlays>>

(***************************************************************************)
(* A call record.  op, pc, speech, timer, narr, offsetMs and stale are the *)
(* call's own state: its position, its options, its locals.                *)
(*   pc     "resolve" .. "destroy": the page command the call awaits;      *)
(*          "returned" / "raised": the call's promise resolved / rejected  *)
(*   timer  the page.waitForTimeout promise of the join                    *)
(*   narr   the promise of _speak: "synth", "play" (remote) or "wsa",      *)
(*          "voices", "utter", "hung" (local, see WebSpeechStart) while it *)
(*          is pending, "done" once it resolved, "failed" once it rejected *)
(*   stale  a navigation destroyed the document that the element handle or *)
(*          the pending page.evaluate of the call belongs to               *)
(* The other fields are history the properties read:                       *)
(*   disp        the dispatch of the call's narration (see NoDisp)         *)
(*   discarded   a navigation replaced the document holding the overlay    *)
(*   overlapped  another highlight ran while this one was in progress      *)
(*   skipped     the local narration resolved without an utterance         *)
(*   unresolved  the call raised because its target did not resolve        *)
(*   loadFailed  the call raised because a step of the load sequence did   *)
(* A finished call keeps op, pc, narr, unresolved and loadFailed only.     *)
(***************************************************************************)
\* nseq: rank among the session's narrations; at: Date.now(), start:
\* this._startTime and set: setStartTime() had been called, at the dispatch;
\* conc: the narrations that were pending at the dispatch
NoDisp == [nseq |-> 0, at |-> 0, start |-> 0, set |-> FALSE, conc |-> {}]

IdleCall ==
  [op |-> "idle", pc |-> "idle", speech |-> NoSpeech, timer |-> "none",
   narr |-> "none", offsetMs |-> -1, stale |-> FALSE,
   disp |-> NoDisp, discarded |-> FALSE, overlapped |-> FALSE, skipped |-> FALSE,
   unresolved |-> FALSE, loadFailed |-> FALSE]

IsPrefix(s, t) == Len(s) <= Len(t) /\ SubSeq(t, 1, Len(s)) = s

\* the states of a pending page.evaluate of _speakWebSpeechApi
WebSpeechPending == {"wsa", "voices", "utter", "hung"}

InFlight(r) == r.narr \in {"synth", "play"} \cup WebSpeechPending
Finished(r) == r.pc \in {"returned", "raised"}
Running(r) == r.op = "highlight" /\ ~Finished(r)

\* the record of a call: a finished call whose narration has settled keeps
\* op, pc and narr; a settled narration keeps no dispatch history
Rec(r) ==
  IF Finished(r) /\ ~InFlight(r)
  THEN [IdleCall EXCEPT !.op = r.op, !.pc = r.pc, !.narr = r.narr,
                        !.unresolved = r.unresolved, !.loadFailed = r.loadFailed]
  ELSE IF Finished(r)
  THEN [r EXCEPT !.timer = "none", !.discarded = FALSE, !.overlapped = FALSE]
  ELSE IF ~InFlight(r) THEN [r EXCEPT !.disp = NoDisp, !.offsetMs = -1]
  ELSE r

InitTutorial ==
  /\ _active \in BOOLEAN
  /\ _ttsBackend \in Backends
  /\ _injected = FALSE
  /\ _startTime = 0
  /\ _audioChunks = <<>>
  /\ returned = "none"
  /\ now = 1
  /\ libLoaded = FALSE
  /\ styleLoaded = FALSE
  /\ tutorialDriver = 0
  /\ overlays = {}
  /\ calls = [c \in Calls |-> IdleCall]
  /\ pageUsed = FALSE
  /\ everSet = FALSE
  /\ narrSeq = 0
  /\ callerWrites = 0
  /\ epochLoaded = FALSE

Absent == "undefined"           \* a string option that was not given
Null == [null |-> TRUE]         \* null, where an object is expected
Undefined == [undefined |-> TRUE] \* a property of object type that is not set

\* no highlight step is being built
InitStepIdle ==
  /\ options = Null
  /\ driverCall = Null

NaN == [nan |-> TRUE, val |-> 0]

\* mergeAudioWithVideo has not run: it is not called (pc "idle") or is called
\* with the chunks list (pc "called")
MergerAt(pc, list) ==
  /\ mpc = pc
  /\ chunks = list
  /\ probeResult = [ok |-> FALSE, out |-> <<>>]
  /\ videoDuration = NaN
  /\ tmpDir = FALSE
  /\ diskFiles = {}
  /\ tmpFiles = <<>>
  /\ cmd = Null
  /\ ran = {}
  /\ error = "none"
  /\ output = "none"

\* mergeAudioWithVideo is not called
InitMergerIdle == MergerAt("idle", <<>>)

\* the fixture function at position pc, with nothing done yet
FixtureAt(pc) ==
  /\ fpc = pc
  /\ pageClosed = FALSE
  /\ videoFile = "none"
  /\ attached = FALSE
  /\ warned = FALSE

\* the session was constructed by hand, not by the fixture
InitFixtureIdle == FixtureAt("none")

Init == InitTutorial /\ InitStepIdle /\ InitMergerIdle /\ InitFixtureIdle

(***************************************************************************)
(* Narration: Tutorial._speak and the two backends.  The operators below   *)
(* are the synchronous part of a narration (up to its first await), given  *)
(* the call record r; the actions SynthDone, PlayDone and WebSpeechDone    *)
(* are the continuations.                                                  *)
(***************************************************************************)

\* the offset without the test of this._startTime
offsetMsUnguarded(st, t) == t - st

\* the start instant is tested with >= 0
offsetMsFromZero(st, t) == IF st >= 0 THEN t - st ELSE -1

\* const offsetMs = this._startTime > 0 ? Date.now() - this._startTime : -1
offsetMs(st, t) == IF st > 0 THEN t - st ELSE -1

\* page.evaluate(...) of the utterance is dispatched
_speakWebSpeechApi(r) == [r EXCEPT !.narr = "wsa"]

\* history of the dispatch of call c's narration
Stamp(c) ==
  [nseq |-> narrSeq + 1, at |-> now, start |-> _startTime, set |-> everSet,
   conc |-> {calls[d].disp.nseq : d \in {e \in Calls \ {c} : InFlight(calls[e])}}]

\* the offset is captured, then tts.synthesize(...) is dispatched
_speakEdgeTts(r, c) ==
  [r EXCEPT !.narr = "synth", !.offsetMs = offsetMs(_startTime, now),
            !.disp = Stamp(c)]

\* the narration goes to the remote backend whatever this._ttsBackend holds
_speakAlwaysRemote(r, c) == _speakEdgeTts(r, c)

\* the narration goes to the local backend whatever this._ttsBackend holds
_speakAlwaysLocal(r, c) == _speakWebSpeechApi(r)

\* the synchronous part of the narration of call c, whose record is r
_speak(r, c) ==
  IF _ttsBackend = "edge-tts" THEN _speakEdgeTts(r, c) ELSE _speakWebSpeechApi(r)

\* the chunk is put in front of the ledger
unshift(ledger, chunk) == <<chunk>> \o ledger

\* a chunk whose buffer is already in the ledger is not stored again
pushDedup(ledger, chunk) ==
  IF \E i \in 1..Len(ledger) : ledger[i].buffer = chunk.buffer
  THEN ledger ELSE Append(ledger, chunk)

\* the chunk is stored twice
pushTwice(ledger, chunk) == Append(Append(ledger, chunk), chunk)

\* this._audioChunks.push(chunk)
push(ledger, chunk) == Append(ledger, chunk)

\* the offset is computed when the chunk is stored, after the synthesis
TrackChunkLate(r) ==
  IF offsetMs(_startTime, now) >= 0
  THEN push(_audioChunks, [buffer |-> r.speech, offsetMs |-> offsetMs(_startTime, now),
                           disp |-> r.disp])
  ELSE _audioChunks

\* the chunk is stored whatever its offset
TrackChunkAlways(r) ==
  push(_audioChunks, [buffer |-> r.speech, offsetMs |-> r.offsetMs, disp |-> r.disp])

\* if (offsetMs >= 0) this._audioChunks.push({ buffer, offsetMs }); the chunk
\* carries the dispatch history of its narration for the properties to read
TrackChunk(r) ==
  IF r.offsetMs >= 0
  THEN push(_audioChunks, [buffer |-> r.speech, offsetMs |-> r.offsetMs, disp |-> r.disp])
  ELSE _audioChunks

\* the join as a race: the first of the timer and the narration ends it
JoinRace(r) ==
  r.timer = "done" \/ (r.speech # NoSpeech /\ r.narr = "done")

\* await Promise.all(waitPromises): the timer and, when options.speech is
\* truthy, the narration
JoinComplete(r) ==
  r.timer = "done" /\ (r.speech # NoSpeech => r.narr = "done")

\* the continuation that runs when something the call awaits has settled
Settle(r) ==
  IF r.pc = "speaking" /\ r.narr = "done" THEN [r EXCEPT !.pc = "returned"]
  ELSE IF r.pc = "join" /\ JoinComplete(r) THEN [r EXCEPT !.pc = "destroy"]
  ELSE r

\* the call's promise rejects
Raise(r) == [r EXCEPT !.pc = "raised"]

Upd(c, r) == [calls EXCEPT ![c] = Rec(r)]

\* the calls are numbered in the order they are issued
CanIssue(c) == calls[c].op = "idle" /\ \A d \in 1..(c - 1) : calls[d].op # "idle"

\* the activation flag is not tested
NeverNoOp == FALSE

\* if (!this._active) return;
IsNoOp == ~_active

(***************************************************************************)
(* speak(text, options)                                                    *)
(***************************************************************************)
speak(c) ==
  /\ CanIssue(c)
  /\ \E text \in Texts :
       IF IsNoOp
       THEN /\ calls' = Upd(c, [calls[c] EXCEPT !.op = "speak", !.pc = "returned"])
            /\ UNCHANGED <<narrSeq, pageUsed>>
       ELSE /\ calls' = Upd(c, _speak([calls[c] EXCEPT !.op = "speak",
                                    !.pc = "speaking", !.speech = text], c))
            /\ narrSeq' = narrSeq + 1
            /\ pageUsed' = (pageUsed \/ _ttsBackend # "edge-tts")
  /\ UNCHANGED <<sessionVars, pageVars, returned, now, everSet, callerWrites>>
  /\ UNCHANGED <<offSession, epochLoaded>>

(***************************************************************************)
(* highlight(target, options): the call is issued and the wait for the     *)
(* target to be visible is dispatched.                                     *)
(***************************************************************************)
highlight(c) ==
  /\ CanIssue(c)
  /\ \E speech \in {NoSpeech} \cup Texts :
       IF IsNoOp
       THEN /\ calls' = Upd(c, [calls[c] EXCEPT !.op = "highlight", !.pc = "returned"])
            /\ UNCHANGED pageUsed
       ELSE /\ calls' = [d \in Calls |->
                 IF d = c
                 THEN [calls[c] EXCEPT !.op = "highlight", !.pc = "resolve",
                                       !.speech = speech,
                                       !.overlapped = \E e \in Calls : Running(calls[e])]
                 ELSE IF Running(calls[d]) THEN [calls[d] EXCEPT !.overlapped = TRUE]
                 ELSE calls[d]]
            /\ pageUsed' = TRUE
  /\ UNCHANGED <<sessionVars, pageVars, returned, now, everSet, narrSeq,
                 callerWrites>>
  /\ UNCHANGED <<offSession, epochLoaded>>

\* the load sequence runs whatever this._injected holds
AlwaysLoad == "style"

\* the pc after the target resolved: _highlightElement calls _ensureDriverJs,
\* which returns at once when this._injected is set
_ensureDriverJs == IF _injected THEN "create" ELSE "style"

\* what the wait for the target gives: an element handle, null (elementHandle()
\* of a locator that resolves to nothing), or it throws (never visible, bad
\* selector, page closed)
Handles == {"element", "null", "throws"}

\* the handle is used without the test for null
ResolvedUnchecked(r, handle) ==
  IF handle # "throws" THEN [r EXCEPT !.pc = _ensureDriverJs]
  ELSE Raise([r EXCEPT !.unresolved = TRUE])

\* if (!handle) throw new Error('Could not resolve element to highlight');
\* await this._highlightElement(handle, options ?? {})
Resolved(r, handle) ==
  IF handle = "element" THEN [r EXCEPT !.pc = _ensureDriverJs]
  ELSE Raise([r EXCEPT !.unresolved = TRUE])

\* the wait for the target of call c settles with `handle`
ResolvesTo(c, handle) == calls' = Upd(c, Resolved(calls[c], handle))

\* waitForSelector / locator.waitFor + elementHandle settle
ResolveDone(c) ==
  /\ calls[c].pc = "resolve"
  /\ \E handle \in Handles : ResolvesTo(c, handle)
  /\ UNCHANGED <<sessionVars, pageVars, returned, now, pageUsed, everSet, narrSeq, callerWrites>>
  /\ UNCHANGED <<offSession, epochLoaded>>

\* the error of a load step is swallowed and the call goes on to the overlay
loadFailureIgnored(r) == [r EXCEPT !.pc = "create"]

\* addStyleTag, addScriptTag or waitForFunction rejects: nothing catches it in
\* _ensureDriverJs, _highlightElement or highlight
loadFailure(r) == Raise([r EXCEPT !.loadFailed = TRUE])

\* page.addStyleTag settles: the style sheet is in the current document
StyleDone(c) ==
  /\ calls[c].pc = "style"
  /\ \/ /\ calls' = Upd(c, [calls[c] EXCEPT !.pc = "script"])
        /\ styleLoaded' = TRUE
     \/ /\ calls' = Upd(c, loadFailure(calls[c]))
        /\ UNCHANGED styleLoaded
  /\ UNCHANGED <<sessionVars, libLoaded, tutorialDriver, overlays, returned, now, pageUsed,
                 everSet, narrSeq, callerWrites>>
  /\ UNCHANGED <<offSession, epochLoaded>>

\* page.addScriptTag settles: the library runs in the current document
ScriptDone(c) ==
  /\ calls[c].pc = "script"
  /\ \/ /\ calls' = Upd(c, [calls[c] EXCEPT !.pc = "waitfn"])
        /\ libLoaded' = TRUE
     \/ /\ calls' = Upd(c, loadFailure(calls[c]))
        /\ UNCHANGED libLoaded
  /\ UNCHANGED <<sessionVars, styleLoaded, tutorialDriver, overlays, returned, now,
                 pageUsed, everSet, narrSeq, callerWrites>>
  /\ UNCHANGED <<offSession, epochLoaded>>

\* the predicate of waitForFunction, evaluated in the page's current document:
\* !!window.driver?.js?.driver
driverGlobal == libLoaded

\* page.waitForFunction settles: it resolves once window.driver.js.driver is
\* defined in the current document, and then this._injected = true and the
\* overlay-creating handle.evaluate is dispatched
WaitFnDone(c) ==
  /\ calls[c].pc = "waitfn"
  /\ \/ /\ driverGlobal
        /\ calls' = Upd(c, [calls[c] EXCEPT !.pc = "create"])
        /\ _injected' = TRUE
        /\ epochLoaded' = TRUE
     \/ /\ calls' = Upd(c, loadFailure(calls[c]))
        /\ UNCHANGED <<_injected, epochLoaded>>
  /\ UNCHANGED <<_active, _ttsBackend, _startTime, _audioChunks, pageVars, returned, now,
                 pageUsed, everSet, narrSeq, callerWrites>>
  /\ UNCHANGED offSession

\* the overlay the slot holds is destroyed before the new one is stored
createReplaces(c) == [alive |-> (overlays \ {tutorialDriver}) \cup {c}, slot |-> c]

\* const driverObj = driverFn(driverConfig); driverObj.highlight(step);
\* window.__tutorialDriver = driverObj
create(c) == [alive |-> overlays \cup {c}, slot |-> c]

\* handle.evaluate(...) settles: driverObj.highlight(step) drew the overlay and
\* window.__tutorialDriver = driverObj; then the timer and the narration start
CreateDone(c) ==
  /\ calls[c].pc = "create"
  /\ \/ /\ ~calls[c].stale
        /\ libLoaded
        /\ overlays' = create(c).alive
        /\ tutorialDriver' = create(c).slot
        /\ LET r == [calls[c] EXCEPT !.pc = "join", !.timer = "pending"]
           IN IF r.speech # NoSpeech
              THEN /\ calls' = Upd(c, _speak(r, c))
                   /\ narrSeq' = narrSeq + 1
              ELSE /\ calls' = Upd(c, r)
                   /\ UNCHANGED narrSeq
     \/ /\ calls' = Upd(c, Raise(calls[c]))
        /\ UNCHANGED <<overlays, tutorialDriver, narrSeq>>
  /\ UNCHANGED <<sessionVars, libLoaded, styleLoaded, returned, now, pageUsed, everSet,
                 callerWrites>>
  /\ UNCHANGED <<offSession, epochLoaded>>

\* page.waitForTimeout(options.timeout ?? DEFAULT_HIGHLIGHT_TIMEOUT) settles
TimerDone(c) ==
  /\ calls[c].pc = "join"
  /\ calls[c].timer = "pending"
  /\ \/ calls' = Upd(c, Settle([calls[c] EXCEPT !.timer = "done"]))
     \/ calls' = Upd(c, Raise(calls[c]))
  /\ UNCHANGED <<sessionVars, pageVars, returned, now, pageUsed, everSet, narrSeq, callerWrites>>
  /\ UNCHANGED <<offSession, epochLoaded>>

\* tts.synthesize + tts.toBase64 settle; on success the chunk is tracked and the
\* playback page.evaluate is dispatched; a failure is caught
SynthDone(c) ==
  /\ calls[c].narr = "synth"
  /\ \/ /\ _audioChunks' = TrackChunk(calls[c])
        /\ calls' = Upd(c, [calls[c] EXCEPT !.narr = "play"])
        /\ pageUsed' = TRUE
     \/ /\ calls' = Upd(c, Settle([calls[c] EXCEPT !.narr = "done"]))
        /\ UNCHANGED <<_audioChunks, pageUsed>>
  /\ UNCHANGED <<_active, _ttsBackend, _injected, _startTime, pageVars, returned, now,
                 everSet, narrSeq, callerWrites>>
  /\ UNCHANGED <<offSession, epochLoaded>>

\* the playback page.evaluate settles (ended, error, play() rejected, the
\* 30 s timer, or the evaluation itself rejected and was caught)
PlayDone(c) ==
  /\ calls[c].narr = "play"
  /\ calls' = Upd(c, Settle([calls[c] EXCEPT !.narr = "done"]))
  /\ UNCHANGED <<sessionVars, pageVars, returned, now, pageUsed, everSet, narrSeq, callerWrites>>
  /\ UNCHANGED <<offSession, epochLoaded>>

\* window.speechSynthesis.getVoices().length === 0 ("none") or not ("some")
Voices == {"none", "some"}

\* if (getVoices().length === 0) await new Promise((voicesReady) => ...)
voicesCheck(voices) == IF voices = "none" THEN "voices" ELSE "utter"

\* the utterance is spoken whatever the catalog holds after the wait
voicesRecheckSpeaks(voices) == "utter"

\* if (getVoices().length === 0) { resolve(); return; } after the wait
voicesRecheck(voices) == IF voices = "none" THEN "done" ELSE "utter"

\* the evaluated function starts in a page whose voice catalog is `voices`
StartsWith(c, voices) ==
  calls' = Upd(c, [calls[c] EXCEPT !.narr = voicesCheck(voices)])

\* the wait for the voices ends in a page whose voice catalog is `voices`
WaitEndsWith(c, voices) ==
  calls' = Upd(c, Settle([calls[c] EXCEPT !.narr = voicesRecheck(voices),
                                          !.skipped = (voicesRecheck(voices) = "done")]))

\* the function evaluated in the page starts: `new Promise(async (resolve) =>
\* ...)`.  Without window.speechSynthesis the async executor throws, its
\* rejection is dropped and the promise never settles ("hung"); with an empty
\* voice catalog it waits for onvoiceschanged or 3000 ms ("voices"); with
\* voices it speaks the utterance ("utter")
WebSpeechStart(c) ==
  /\ calls[c].narr = "wsa"
  /\ ~calls[c].stale
  /\ \/ calls' = Upd(c, [calls[c] EXCEPT !.narr = "hung"])
     \/ \E voices \in Voices : StartsWith(c, voices)
  /\ UNCHANGED <<sessionVars, pageVars, returned, now, pageUsed, everSet, narrSeq, callerWrites>>
  /\ UNCHANGED <<offSession, epochLoaded>>

\* the wait for the voices ends (onvoiceschanged or the 3000 ms timer): with
\* no voice still, resolve(); else the utterance is spoken
VoicesReady(c) ==
  /\ calls[c].narr = "voices"
  /\ ~calls[c].stale
  /\ \E voices \in Voices : WaitEndsWith(c, voices)
  /\ UNCHANGED <<sessionVars, pageVars, returned, now, pageUsed, everSet, narrSeq, callerWrites>>
  /\ UNCHANGED <<offSession, epochLoaded>>

\* utterance.onend, utterance.onerror or the 30 s timer: resolve(), and the
\* page.evaluate resolves
UtterEnd(c) ==
  /\ calls[c].narr = "utter"
  /\ ~calls[c].stale
  /\ calls' = Upd(c, Settle([calls[c] EXCEPT !.narr = "done"]))

\* the page.evaluate rejects (execution context destroyed, page closed);
\* nothing catches the rejection, so it rejects speak() or the join of
\* highlight()
WebSpeechReject(c) ==
  /\ calls[c].narr \in WebSpeechPending
  /\ calls' = Upd(c, Raise([calls[c] EXCEPT !.narr = "failed"]))

\* the Web Speech page.evaluate settles
WebSpeechDone(c) ==
  /\ UtterEnd(c) \/ WebSpeechReject(c)
  /\ UNCHANGED <<sessionVars, pageVars, returned, now, pageUsed, everSet, narrSeq, callerWrites>>
  /\ UNCHANGED <<offSession, epochLoaded>>

\* the overlay is destroyed and window.__tutorialDriver is left as it is
destroyKeepsSlot == [alive |-> overlays \ {tutorialDriver}, slot |-> tutorialDriver]

\* const driverObj = window.__tutorialDriver;
\* if (driverObj) { driverObj.destroy(); delete window.__tutorialDriver; }
destroy == [alive |-> overlays \ {tutorialDriver}, slot |-> 0]

\* the destroying page.evaluate settles
DestroyDone(c) ==
  /\ calls[c].pc = "destroy"
  /\ \/ /\ overlays' = destroy.alive
        /\ tutorialDriver' = destroy.slot
        /\ calls' = Upd(c, [calls[c] EXCEPT !.pc = "returned"])
     \/ /\ calls' = Upd(c, Raise(calls[c]))
        /\ UNCHANGED <<overlays, tutorialDriver>>
  /\ UNCHANGED <<sessionVars, libLoaded, styleLoaded, returned, now, pageUsed, everSet,
                 narrSeq, callerWrites>>
  /\ UNCHANGED <<offSession, epochLoaded>>

(***************************************************************************)
(* setStartTime, getAudioChunks, the framenavigated listener, the clock    *)
(***************************************************************************)
\* the values given to setStartTime(t: number): a negative one, zero and the
\* values of the clock
StartTimes == -1..MaxClock

setStartTime ==
  /\ \E t \in StartTimes : _startTime' = t
  /\ everSet' = TRUE
  /\ UNCHANGED <<_active, _ttsBackend, _injected, _audioChunks, pageVars, returned, now,
                 calls, pageUsed, narrSeq, callerWrites>>
  /\ UNCHANGED <<offSession, epochLoaded>>

\* return this._audioChunks: the array object itself
getAudioChunks ==
  /\ returned' = "this._audioChunks"
  /\ UNCHANGED <<sessionVars, pageVars, now, calls, pageUsed, everSet, narrSeq, callerWrites>>
  /\ UNCHANGED <<offSession, epochLoaded>>

\* the value the caller sees through what getAudioChunks() returned
ReturnedValue == IF returned = "this._audioChunks" THEN _audioChunks ELSE <<>>

\* a framenavigated event.  "document": the main frame loaded a new document;
\* "same-document": the main frame navigated inside its document (fragment,
\* history API); "subframe": another frame navigated
Frames == {"document", "same-document", "subframe"}

\* the listener takes every frame for the main frame
AnyFrame(frame) == TRUE

\* frame === this._page.mainFrame()
IsMainFrame(frame) == frame # "subframe"

FrameNavigated(frame) ==
  /\ _injected' = IF IsMainFrame(frame) THEN FALSE ELSE _injected
  /\ epochLoaded' = IF frame = "subframe" THEN epochLoaded ELSE FALSE
  /\ IF frame = "document"
     THEN /\ libLoaded' = FALSE
          /\ styleLoaded' = FALSE
          /\ overlays' = {}
          /\ tutorialDriver' = 0
          /\ calls' = [c \in Calls |->
               Rec([calls[c] EXCEPT
                     !.stale = @ \/ calls[c].pc \in {"style", "script", "waitfn", "create"}
                                 \/ calls[c].narr \in WebSpeechPending \cup {"play"},
                     !.discarded = @ \/ c \in overlays])]
     ELSE UNCHANGED <<pageVars, calls>>
  /\ UNCHANGED <<_active, _ttsBackend, _startTime, _audioChunks, returned, now, pageUsed,
                 everSet, narrSeq, callerWrites>>
  /\ UNCHANGED offSession

Tick ==
  /\ now < MaxClock
  /\ now' = now + 1
  /\ UNCHANGED <<sessionVars, pageVars, returned, calls, pageUsed, everSet, narrSeq, callerWrites>>
  /\ UNCHANGED <<offSession, epochLoaded>>

\* the caller writes to the array it got from getAudioChunks()
CallerWrite ==
  /\ returned = "this._audioChunks"
  /\ callerWrites < MaxCallerWrites
  /\ callerWrites' = callerWrites + 1
  /\ \E kind \in {"push", "pop", "reverse"} :
       LET v == ReturnedValue
           w == CASE kind = "push" -> Append(v, [buffer |-> "x", offsetMs |-> 0, disp |-> NoDisp])
                  [] kind = "pop" -> SubSeq(v, 1, Len(v) - 1)
                  [] kind = "reverse" -> [i \in 1..Len(v) |-> v[Len(v) + 1 - i]]
       IN /\ w # v
          /\ _audioChunks' = w
  /\ UNCHANGED <<_active, _ttsBackend, _injected, _startTime, pageVars, returned, now,
                 calls, pageUsed, everSet, narrSeq>>
  /\ UNCHANGED <<offSession, epochLoaded>>

\* the steps of the calls
CallStep ==
  \/ \E c \in Calls : speak(c)
  \/ \E c \in Calls : highlight(c)
  \/ \E c \in Calls : ResolveDone(c)
  \/ \E c \in Calls : StyleDone(c)
  \/ \E c \in Calls : ScriptDone(c)
  \/ \E c \in Calls : WaitFnDone(c)
  \/ \E c \in Calls : CreateDone(c)
  \/ \E c \in Calls : TimerDone(c)
  \/ \E c \in Calls : SynthDone(c)
  \/ \E c \in Calls : PlayDone(c)
  \/ \E c \in Calls : WebSpeechStart(c)
  \/ \E c \in Calls : VoicesReady(c)
  \/ \E c \in Calls : WebSpeechDone(c)
  \/ \E c \in Calls : DestroyDone(c)

Next ==
  \/ CallStep
  \/ setStartTime
  \/ getAudioChunks
  \/ \E frame \in Frames : FrameNavigated(frame)
  \/ Tick

Spec == Init /\ [][Next]_vars

(***************************************************************************)
(* No step of a call reads now, _startTime, _audioChunks or returned in a  *)
(* guard, and a navigation changes the narration of a call only by making  *)
(* a page command fail, which every step may do anyway.  So the page side  *)
(* of the session is explored with the calls and the navigation events     *)
(* (SpecOverlay) and the ledger side with the calls, the clock and         *)
(* setStartTime (SpecLedger).                                              *)
(***************************************************************************)
NextOverlay == CallStep \/ \E frame \in Frames : FrameNavigated(frame)
SpecOverlay == Init /\ [][NextOverlay]_vars

NextLedger == CallStep \/ setStartTime \/ Tick
SpecLedger == Init /\ [][NextLedger]_vars

\* the session together with a caller that writes to the returned array
NextCaller == NextLedger \/ getAudioChunks \/ CallerWrite
SpecCaller == Init /\ [][NextCaller]_vars

\* a step that continues a call that is awaiting something
Continuation ==
  \E c \in Calls :
    \/ ResolveDone(c) \/ StyleDone(c) \/ ScriptDone(c) \/ WaitFnDone(c)
    \/ CreateDone(c) \/ TimerDone(c) \/ SynthDone(c) \/ PlayDone(c)
    \/ WebSpeechStart(c) \/ VoicesReady(c) \/ WebSpeechDone(c) \/ DestroyDone(c)

\* a session constructed with active = false: every operation and event; the
\* continuations are left out, C1_InactiveNoOp shows that none is ever enabled
NextInactive ==
  \/ \E c \in Calls : speak(c)
  \/ \E c \in Calls : highlight(c)
  \/ setStartTime
  \/ getAudioChunks
  \/ \E frame \in Frames : FrameNavigated(frame)
  \/ Tick
InitInactive == Init /\ ~_active
SpecInactive == InitInactive /\ [][NextInactive]_vars

(***************************************************************************)
(* The highlight step of _highlightElement: from the HighlightOptions to   *)
(* what the overlay-creating evaluation hands to Driver.js.                *)
(***************************************************************************)
HighlightOptions ==
  [title : {Absent, "", "T"}, text : {Absent, "", "X"},
   side : {Absent, "top"}, align : {Absent, "start"},
   timeout : {Absent, "500"}, speech : {Absent, "a"}]

\* JavaScript truthiness of an optional string
Truthy(x) == x \notin {Absent, ""}

\* a || b
Or(a, b) == IF Truthy(a) THEN a ELSE b

\* the popover is attached when the title is given, whatever the text
hasPopoverTitleOnly(o) == Truthy(o.title)

\* const hasPopover = !!(options.title || options.text)
hasPopover(o) == Truthy(Or(o.title, o.text))

\* const popoverData = hasPopover ? { title, text, side, align } : null
popoverData(o) ==
  IF hasPopover(o)
  THEN [title |-> o.title, text |-> o.text, side |-> o.side, align |-> o.align]
  ELSE Null

\* the function evaluated in the page with opts = popoverData: the driver
\* configuration and the step given to driverObj.highlight
evaluate(opts) ==
  [popoverClass |-> IF opts = Null THEN "tutorial-no-popover" ELSE Absent,
   popover |-> IF opts # Null
               THEN [title |-> opts.title, description |-> opts.text,
                     side |-> opts.side, align |-> opts.align]
               ELSE Undefined]

\* _highlightElement builds the step of the options it was given
BuildStep ==
  /\ options # Null
  /\ driverCall = Null
  /\ driverCall' = evaluate(popoverData(options))
  /\ UNCHANGED <<tutorialVars, mergerVars, fixtureVars, options>>

InitStep ==
  /\ InitTutorial /\ _active
  /\ InitMergerIdle
  /\ InitFixtureIdle
  /\ options \in HighlightOptions
  /\ driverCall = Null

NextStep == BuildStep
SpecStep == InitStep /\ [][NextStep]_vars

(***************************************************************************)
(* mergeAudioWithVideo(videoPath, chunks, outputPath) of audio-merger.ts.  *)
(* The function is synchronous; it is cut into steps at the calls that can *)
(* throw: the probe, mkdtempSync, each writeFileSync, the encode.          *)
(***************************************************************************)
MaxChunks == 2   \* longest chunk list given to the merge
MaxOffset == 1   \* largest offsetMs of a chunk
MaxOut == 2      \* longest output of ffprobe, in characters

ChunkLists ==
  UNION {[1..n -> [buffer : {"a", "b"}, offsetMs : 0..MaxOffset]] : n \in 0..MaxChunks}

Chars == {"-", "0", "7", "N", " "}
Digits == {"0", "7"}
ProbeOutputs == UNION {[1..n -> Chars] : n \in 0..MaxOut}

\* execSync of ffprobe throws (missing binary, non-zero exit, timeout) or
\* returns what the subprocess printed
ProbeResults ==
  {[ok |-> FALSE, out |-> <<>>]} \cup {[ok |-> TRUE, out |-> o] : o \in ProbeOutputs}

RECURSIVE TrimStart(_)
TrimStart(str) ==
  IF str # <<>> /\ Head(str) = " " THEN TrimStart(Tail(str)) ELSE str

RECURSIVE TrimEnd(_)
TrimEnd(str) ==
  IF str # <<>> /\ str[Len(str)] = " " THEN TrimEnd(SubSeq(str, 1, Len(str) - 1)) ELSE str

\* String.prototype.trim
trim(str) == TrimEnd(TrimStart(str))

DigitVal(ch) == IF ch = "0" THEN 0 ELSE 7

RECURSIVE ParseDigits(_, _)
ParseDigits(str, acc) ==
  IF str = <<>> \/ Head(str) \notin Digits THEN acc
  ELSE ParseDigits(Tail(str), 10 * acc + DigitVal(Head(str)))

\* parseFloat: leading white space, an optional sign, the longest run of
\* digits; NaN when there is no digit
parseFloat(str) ==
  LET t == TrimStart(str)
      neg == t # <<>> /\ Head(t) = "-"
      body == IF neg THEN Tail(t) ELSE t
  IN IF body = <<>> \/ Head(body) \notin Digits THEN NaN
     ELSE [nan |-> FALSE, val |-> IF neg THEN 0 - ParseDigits(body, 0)
                                  ELSE ParseDigits(body, 0)]

isNaN(v) == v.nan

\* the empty list is merged like any other
NeverEmpty(list) == FALSE

\* if (chunks.length === 0) return;
NoWork(list) == Len(list) = 0

\* an unparsable probe output is an error as well
ProbeThrowsOnNaN(res) == ~res.ok \/ isNaN(parseFloat(trim(res.out)))

\* execSync(ffprobe ...) throws
ProbeThrows(res) == ~res.ok

\* the silent track is added for every duration that is a number
hasSilenceTrackAnyNumber(d) == ~isNaN(d)

\* const hasSilenceTrack = !isNaN(videoDuration) && videoDuration > 0
hasSilenceTrack(d) == ~isNaN(d) /\ d.val > 0

\* the chunk inputs are taken to start right after the video
chunkInputOffsetNoSilence(d) == 1

\* const chunkInputOffset = hasSilenceTrack ? 2 : 1
chunkInputOffset(d) == IF hasSilenceTrack(d) THEN 2 ELSE 1

\* filters.push(`[${i + chunkInputOffset}:a]adelay=${delay}|${delay}[a${i}]`),
\* for the chunk at index i (from 0)
adelay(i) ==
  [in |-> i + chunkInputOffset(videoDuration), delay |-> chunks[i + 1].offsetMs,
   out |-> i]

\* the amix filter: its input labels, inputs= and normalize=
amix ==
  LET labels == [i \in 1..Len(chunks) |-> [a |-> i - 1]]
  IN IF hasSilenceTrack(videoDuration)
     THEN [labels |-> <<[in |-> 1]>> \o labels, inputs |-> Len(chunks) + 1, normalize |-> 0]
     ELSE [labels |-> labels, inputs |-> Len(chunks), normalize |-> 0]

\* the -i arguments in the order of the command: the video, silenceInput
\* unless it is the empty string (.filter(Boolean)), the temporary files
Inputs ==
  <<[kind |-> "video", file |-> 0, t |-> NaN]>>
  \o (IF hasSilenceTrack(videoDuration)
      THEN <<[kind |-> "anullsrc", file |-> 0, t |-> videoDuration]>> ELSE <<>>)
  \o [k \in 1..Len(tmpFiles) |-> [kind |-> "file", file |-> tmpFiles[k], t |-> NaN]]

\* const cmd = [...]
BuildCmd ==
  [inputs |-> Inputs,
   delays |-> [k \in 1..Len(chunks) |-> adelay(k - 1)],
   amix |-> amix]

\* the exception is swallowed after the cleanup
NeverRethrow(err) == FALSE

\* a try/finally rethrows the exception of its try block
Rethrow(err) == err # "none"

\* the empty-list test, then the probe
StartMerge ==
  /\ mpc = "called"
  /\ IF NoWork(chunks)
     THEN /\ mpc' = "returned"
          /\ UNCHANGED <<probeResult, videoDuration, ran, error>>
     ELSE /\ ran' = ran \cup {"ffprobe"}
          /\ \E res \in ProbeResults :
               /\ probeResult' = res
               /\ IF ProbeThrows(res)
                  THEN /\ mpc' = "raised"
                       /\ error' = "probe"
                       /\ UNCHANGED videoDuration
                  ELSE /\ mpc' = "mkdtemp"
                       /\ videoDuration' = parseFloat(trim(res.out))
                       /\ UNCHANGED error
  /\ UNCHANGED <<chunks, tmpDir, diskFiles, tmpFiles, cmd, output>>
  /\ UNCHANGED <<tutorialVars, stepVars, fixtureVars>>

\* const tmpDir = fs.mkdtempSync(...), outside the try block
MakeTmpDir ==
  /\ mpc = "mkdtemp"
  /\ \/ tmpDir' = TRUE /\ mpc' = "write" /\ UNCHANGED error
     \/ mpc' = "raised" /\ error' = "mkdtemp" /\ UNCHANGED tmpDir
  /\ UNCHANGED <<chunks, probeResult, videoDuration, diskFiles, tmpFiles, cmd, ran, output>>
  /\ UNCHANGED <<tutorialVars, stepVars, fixtureVars>>

\* one turn of the loop: fs.writeFileSync(tmpFile, chunks[i].buffer), then
\* tmpFiles.push(tmpFile).  A write that throws has created the file (the
\* write failed after the open) or not (the open failed)
WriteChunk ==
  /\ mpc = "write"
  /\ Len(tmpFiles) < Len(chunks)
  /\ LET i == Len(tmpFiles)
     IN \/ /\ diskFiles' = diskFiles \cup {[name |-> i, content |-> chunks[i + 1].buffer]}
           /\ tmpFiles' = Append(tmpFiles, i)
           /\ UNCHANGED <<mpc, error>>
        \/ /\ diskFiles' \in {diskFiles, diskFiles \cup {[name |-> i, content |-> "partial"]}}
           /\ mpc' = "cleanup"
           /\ error' = "write"
           /\ UNCHANGED tmpFiles
  /\ UNCHANGED <<chunks, probeResult, videoDuration, tmpDir, cmd, ran, output>>
  /\ UNCHANGED <<tutorialVars, stepVars, fixtureVars>>

\* the command is built and execSync(cmd) runs ffmpeg
Encode ==
  /\ mpc = "write"
  /\ Len(tmpFiles) = Len(chunks)
  /\ cmd' = BuildCmd
  /\ ran' = ran \cup {"ffmpeg"}
  /\ mpc' = "cleanup"
  /\ \/ output' = "complete" /\ UNCHANGED error
     \/ output' \in {"none", "partial"} /\ error' = "encode"
  /\ UNCHANGED <<chunks, probeResult, videoDuration, tmpDir, diskFiles, tmpFiles>>
  /\ UNCHANGED <<tutorialVars, stepVars, fixtureVars>>

\* finally: unlinkSync of every file of tmpFiles, then rmdirSync(tmpDir), which
\* fails on a directory that is not empty; both inside try/catch
Cleanup ==
  /\ mpc = "cleanup"
  /\ LET left == {f \in diskFiles : \A k \in 1..Len(tmpFiles) : tmpFiles[k] # f.name}
     IN /\ diskFiles' = left
        /\ tmpDir' = (left # {})
  /\ mpc' = IF Rethrow(error) THEN "raised" ELSE "returned"
  /\ UNCHANGED <<chunks, probeResult, videoDuration, tmpFiles, cmd, ran, error, output>>
  /\ UNCHANGED <<tutorialVars, stepVars, fixtureVars>>

\* a call of mergeAudioWithVideo on the ledger of a finished session
InitMerge ==
  /\ InitTutorial /\ _active /\ _ttsBackend = "edge-tts"
  /\ InitStepIdle
  /\ InitFixtureIdle
  /\ \E list \in ChunkLists : MergerAt("called", list)

NextMerge ==
  \/ StartMerge
  \/ MakeTmpDir
  \/ WriteChunk
  \/ Encode
  \/ Cleanup

SpecMerge == InitMerge /\ [][NextMerge]_vars

(***************************************************************************)
(* The tutorialObj fixture of fixtures.ts.  The fixture function runs up   *)
(* to `await use(tut)`, the test body runs, and when use() resolves (the   *)
(* body finished, failed or timed out) the teardown runs.  The test body   *)
(* uses the documented API of the session, highlight() and speak(); calls  *)
(* it did not await, or that were pending when it timed out, go on during  *)
(* the awaits of the teardown.  mergeAudioWithVideo is synchronous: while  *)
(* it runs no continuation of the session runs.                            *)
(***************************************************************************)
\* the fixture function is suspended at `await use(tut)`, `await page.close()`,
\* `await video.saveAs(...)` or `await testInfo.attach(...)`
AwaitingOrMerging == fpc \in {"body", "closing", "saving", "attach", "merge"}

Awaiting == fpc \in {"body", "closing", "saving", "attach"}

\* the fixture does not record a start instant: this._startTime stays as the
\* constructor left it
FixtureStartUnset == _startTime

\* the argument of tut.setStartTime(Date.now())
FixtureStart == now

\* const tut = new Tutorial(page, tutorialActive); tut.setStartTime(Date.now());
\* await use(tut)
Setup ==
  /\ fpc = "setup"
  /\ _startTime' = FixtureStart
  /\ everSet' = TRUE
  /\ fpc' = "body"
  /\ UNCHANGED <<_active, _ttsBackend, _injected, _audioChunks, pageVars, returned, now,
                 calls, pageUsed, narrSeq, callerWrites, epochLoaded>>
  /\ UNCHANGED <<stepVars, mergerVars, pageClosed, videoFile, attached, warned>>

\* after page.close() every page command rejects: a step of the session
\* changes nothing in the page, no page command of a call succeeds and a
\* pending Web Speech evaluation can only reject
ClosedPageStep ==
  pageClosed =>
    /\ UNCHANGED <<pageVars, _injected>>
    /\ \A c \in Calls :
         /\ calls[c].pc \in {"resolve", "style", "script", "waitfn", "create", "destroy"}
              => calls'[c].pc \in {calls[c].pc, "raised"}
         /\ calls[c].timer = "pending"
              => (calls'[c].timer = "pending" \/ calls'[c].pc = "raised")
         /\ calls[c].narr \in WebSpeechPending
              => calls'[c].narr \in {calls[c].narr, "failed"}

\* a step of the session or of the clock while the fixture function is
\* suspended
SessionStep ==
  /\ Awaiting
  /\ CallStep \/ Tick
  /\ ClosedPageStep

\* the teardown goes on with an empty ledger
NoMergeKeepsEmptyLedger(video) ==
  ~_active \/ _ttsBackend # "edge-tts" \/ video = "null"

\* the teardown is not entered: !tutorialActive || !isEdgeTts ||
\* chunks.length === 0, or page.video() is null
NoMerge(video) ==
  ~_active \/ _ttsBackend # "edge-tts" \/ Len(_audioChunks) = 0 \/ video = "null"

\* page.video(): null when the page is not recorded
Videos == {"null", "video"}

\* the teardown starts, page.video() being video
TeardownWith(video) ==
  /\ fpc = "body"
  /\ fpc' = IF NoMerge(video) THEN "done" ELSE "closing"

\* use(tut) resolves; const chunks = tut.getAudioChunks(); the tests of
\* lines 25 and 28; page.close() is dispatched
UseReturns ==
  /\ fpc = "body"
  /\ returned' = "this._audioChunks"
  /\ \E video \in Videos : TeardownWith(video)
  /\ UNCHANGED <<sessionVars, pageVars, now, calls, pageUsed, everSet, narrSeq,
                 callerWrites, epochLoaded>>
  /\ UNCHANGED <<stepVars, mergerVars, pageClosed, videoFile, attached, warned>>

\* the error is thrown on to the test runner
rethrow == [fpc |-> "raised", warned |-> TRUE]

\* catch (err) { console.warn('[tutorial] Failed to merge audio into video:', err); }
catch == [fpc |-> "done", warned |-> TRUE]

\* page.close() settles.  Resolved: the page and its document are gone and
\* video.saveAs(videoPath) is dispatched
CloseDone ==
  /\ fpc = "closing"
  /\ \/ /\ pageClosed' = TRUE
        /\ libLoaded' = FALSE
        /\ styleLoaded' = FALSE
        /\ overlays' = {}
        /\ tutorialDriver' = 0
        /\ calls' = [c \in Calls |->
             Rec([calls[c] EXCEPT
                   !.stale = @ \/ calls[c].pc \in {"style", "script", "waitfn", "create"}
                               \/ calls[c].narr \in WebSpeechPending \cup {"play"},
                   !.discarded = @ \/ c \in overlays])]
        /\ fpc' = "saving"
        /\ UNCHANGED warned
     \/ /\ fpc' = catch.fpc
        /\ warned' = catch.warned
        /\ UNCHANGED <<pageClosed, pageVars, calls>>
  /\ UNCHANGED <<sessionVars, returned, now, pageUsed, everSet, narrSeq, callerWrites,
                 epochLoaded>>
  /\ UNCHANGED <<stepVars, mergerVars, videoFile, attached>>

\* video.saveAs(videoPath) settles.  Resolved: the file is written and
\* mergeAudioWithVideo(videoPath, chunks, outputPath) is called with the array
\* getAudioChunks() returned
SaveDone ==
  /\ fpc = "saving"
  /\ \/ /\ videoFile' = "saved"
        /\ fpc' = "merge"
        /\ mpc' = "called"
        /\ chunks' = ReturnedValue
        /\ UNCHANGED warned
     \/ /\ videoFile' \in {"none", "partial"}
        /\ fpc' = catch.fpc
        /\ warned' = catch.warned
        /\ UNCHANGED <<mpc, chunks>>
  /\ UNCHANGED tutorialVars
  /\ UNCHANGED <<stepVars, probeResult, videoDuration, tmpDir, diskFiles, tmpFiles, cmd,
                 ran, error, output, pageClosed, attached>>

\* the steps of mergeAudioWithVideo, called by the teardown
MergeStep ==
  /\ fpc = "merge"
  /\ StartMerge \/ MakeTmpDir \/ WriteChunk \/ Encode \/ Cleanup

\* mergeAudioWithVideo returned or threw: testInfo.attach(...) is dispatched, or
\* the catch block runs
MergeDone ==
  /\ fpc = "merge"
  /\ mpc \in {"returned", "raised"}
  /\ IF mpc = "returned"
     THEN fpc' = "attach" /\ UNCHANGED warned
     ELSE fpc' = catch.fpc /\ warned' = catch.warned
  /\ UNCHANGED tutorialVars
  /\ UNCHANGED <<stepVars, mergerVars, pageClosed, videoFile, attached>>

\* testInfo.attach settles.  Resolved: fs.unlinkSync(videoPath) and
\* fs.unlinkSync(outputPath), each of which may throw
AttachDone ==
  /\ fpc = "attach"
  /\ \/ /\ attached' = TRUE
        /\ \/ videoFile' = "none" /\ output' = "none" /\ fpc' = "done" /\ UNCHANGED warned
           \/ /\ videoFile' = "none" /\ UNCHANGED output
              /\ fpc' = catch.fpc /\ warned' = catch.warned
           \/ /\ UNCHANGED <<videoFile, output>>
              /\ fpc' = catch.fpc /\ warned' = catch.warned
     \/ /\ fpc' = catch.fpc
        /\ warned' = catch.warned
        /\ UNCHANGED <<attached, videoFile, output>>
  /\ UNCHANGED tutorialVars
  /\ UNCHANGED <<stepVars, mpc, chunks, probeResult, videoDuration, tmpDir, diskFiles,
                 tmpFiles, cmd, ran, error, pageClosed>>

InitFixture ==
  /\ InitTutorial
  /\ InitStepIdle
  /\ InitMergerIdle
  /\ FixtureAt("setup")

NextFixture ==
  \/ Setup
  \/ SessionStep
  \/ UseReturns
  \/ CloseDone
  \/ SaveDone
  \/ MergeStep
  \/ MergeDone
  \/ AttachDone

SpecFixture == InitFixture /\ [][NextFixture]_vars

(***************************************************************************)
(* Progress of the local narration.  What runs in the page is driven by    *)
(* the page's event loop and timers: the evaluated function starts, the    *)
(* wait for the voices ends after 3000 ms at the latest, the utterance     *)
(* ends at its end or error event or after 30 000 ms.  Nothing makes the   *)
(* page.evaluate reject unless the page navigates or closes, so no         *)
(* fairness is stated for WebSpeechReject.                                 *)
(***************************************************************************)
WebSpeechFairness ==
  \A c \in Calls :
    /\ WF_vars(WebSpeechStart(c))
    /\ WF_vars(VoicesReady(c))
    /\ WF_vars(UtterEnd(c) /\ UNCHANGED <<sessionVars, pageVars, returned, now, pageUsed,
                                          everSet, narrSeq, callerWrites, offSession,
                                          epochLoaded>>)

\* Progress of the remote narration.  The playback runs in the page and its
\* promise resolves at the ended or error event, when play() rejects or after
\* 30 000 ms, so PlayDone is fair.  `await tts.synthesize(...)` and `await
\* tts.toBase64()` are awaited as they are: the session arms no timer around
\* them and a rejection is all the catch block sees, so nothing in the code
\* makes SynthDone happen and no fairness is stated for it.
RemoteFairness == \A c \in Calls : WF_vars(PlayDone(c))

InitLive == Init /\ _active
SpecLive == InitLive /\ [][CallStep]_vars /\ WebSpeechFairness /\ RemoteFairness

(***************************************************************************)
(* The claims.                                                             *)
(***************************************************************************)
Ledger == 1..Len(_audioChunks)

\* C1: on an inactive session every highlight() and speak() call returns at
\* once: no call is ever pending (so no continuation can run), no page command
\* was issued, the library is not loaded, no overlay exists, no narration was
\* dispatched and the ledger is empty.
C1_InactiveNoOp ==
  ~_active =>
    /\ \A c \in Calls : calls[c].pc \in {"idle", "returned"} /\ calls[c].narr = "none"
    /\ ~ENABLED Continuation
    /\ ~pageUsed /\ ~_injected /\ ~libLoaded
    /\ overlays = {} /\ tutorialDriver = 0
    /\ narrSeq = 0
    /\ _audioChunks = <<>>

C1_Witness ==
  /\ ~_active /\ everSet /\ now > 1
  /\ \E c, d \in Calls : /\ calls[c].op = "highlight" /\ calls[c].pc = "returned"
                         /\ calls[d].op = "speak" /\ calls[d].pc = "returned"

\* C2: the destroy step of a highlight call is issued only when the display
\* timer has elapsed and, if speech was supplied, the narration has completed.
C2_JoinBeforeDestroy ==
  \A c \in Calls :
    calls[c].pc = "destroy" =>
      /\ calls[c].timer = "done"
      /\ calls[c].speech # NoSpeech => calls[c].narr = "done"

C2_Witness ==
  \E c \in Calls :
    calls[c].pc = "destroy" /\ calls[c].speech # NoSpeech /\ calls[c].narr = "done"

\* C3: for both backends the promise of a narration never rejects, so no
\* narration failure reaches the caller of speak() or the join of highlight().
C3_NarrationNeverRaises == \A c \in Calls : calls[c].narr # "failed"

\* C4: the value getAudioChunks() returned is a snapshot: a step of the session
\* does not change it, and a write of the caller to it does not change the
\* ledger.
C4_Snapshot ==
  [][/\ (returned # "none" /\ returned' = returned /\ callerWrites' = callerWrites)
          => ReturnedValue' = ReturnedValue
     /\ callerWrites' # callerWrites => _audioChunks' = _audioChunks]_vars

\* C5: a remote narration dispatched before any setStartTime() call appends
\* nothing and raises nothing: every chunk comes from a narration dispatched
\* after a setStartTime() call, a pending narration dispatched before one holds
\* the offset -1, and the narration promise of the remote backend never rejects.
C5_NoChunkBeforeStart ==
  /\ \A i \in Ledger : _audioChunks[i].disp.set
  /\ ~everSet => _audioChunks = <<>>
  /\ \A c \in Calls :
       /\ (calls[c].narr \in {"synth", "play"} /\ ~calls[c].disp.set) => calls[c].offsetMs = -1
       /\ _ttsBackend = "edge-tts" => calls[c].narr # "failed"

C5_Witness ==
  /\ _ttsBackend = "edge-tts" /\ everSet /\ _startTime > 0 /\ _audioChunks = <<>>
  /\ \E c \in Calls : calls[c].narr = "play" /\ ~calls[c].disp.set

\* C6: the offset of a chunk is the clock at the dispatch of its narration
\* minus the start instant at that moment, whatever time passed afterwards.
C6_OffsetAtDispatch ==
  \A i \in Ledger :
    _audioChunks[i].offsetMs = _audioChunks[i].disp.at - _audioChunks[i].disp.start

C6_Witness ==
  \E i \in Ledger, c \in Calls :
    /\ calls[c].narr = "play" /\ calls[c].disp.nseq = _audioChunks[i].disp.nseq
    /\ now > _audioChunks[i].disp.at

Overlap(x, y) == y.disp.nseq \in x.disp.conc \/ x.disp.nseq \in y.disp.conc

InIssueOrder(x, y) ==
  /\ x.disp.nseq < y.disp.nseq
  /\ x.disp.start = y.disp.start => x.offsetMs <= y.offsetMs

\* C7 as stated: the chunks are stored in the order their narrations were
\* issued, overlapping narrations included, and with one start instant the
\* offsets do not decrease along the ledger.
C7_IssueOrder ==
  \A i, j \in Ledger : i < j => InIssueOrder(_audioChunks[i], _audioChunks[j])

\* C7 amended: the chunks of two narrations that did not overlap in time are
\* stored in the order the narrations were issued, and with one start instant
\* their offsets do not decrease.
C7_IssueOrderUnlessOverlap ==
  \A i, j \in Ledger :
    (i < j /\ ~Overlap(_audioChunks[i], _audioChunks[j]))
      => InIssueOrder(_audioChunks[i], _audioChunks[j])

C7_Witness ==
  \E i, j \in Ledger :
    /\ i < j /\ ~Overlap(_audioChunks[i], _audioChunks[j])
    /\ _audioChunks[i].offsetMs < _audioChunks[j].offsetMs

\* C8: the ledger is append-only: every step leaves the earlier ledger a
\* prefix of the later one and adds at most one chunk, and every remote
\* synthesis that succeeds with an offset >= 0 adds its own chunk, whatever the
\* ledger holds already.
C8_AppendOnly ==
  [][/\ IsPrefix(_audioChunks, _audioChunks')
     /\ Len(_audioChunks') <= Len(_audioChunks) + 1
     /\ \A c \in Calls :
          (calls[c].narr = "synth" /\ calls'[c].narr = "play" /\ calls[c].offsetMs >= 0)
            => /\ Len(_audioChunks') = Len(_audioChunks) + 1
               /\ _audioChunks'[Len(_audioChunks')].buffer = calls[c].speech]_vars

C8_Witness ==
  \E i, j \in Ledger : i < j /\ _audioChunks[i].buffer = _audioChunks[j].buffer

\* C9: at most one overlay of the session is alive on the page.
C9_AtMostOneOverlay == Cardinality(overlays) <= 1

\* C10 as stated: a highlight call past its load creates exactly one overlay,
\* and when the call returns with no other highlight overlapping it, its
\* destroy step has destroyed that overlay and emptied the slot.
C10_DestroyedOnReturn ==
  [][\A c \in Calls :
       /\ (calls[c].pc = "create" /\ calls'[c].pc = "join")
            => c \notin overlays /\ overlays' = overlays \cup {c} /\ tutorialDriver' = c
       /\ (calls[c].pc = "destroy" /\ calls'[c].pc = "returned" /\ ~calls[c].overlapped)
            => /\ tutorialDriver = c /\ c \in overlays
               /\ c \notin overlays' /\ tutorialDriver' = 0]_vars

\* C10 amended: a highlight call whose overlay-creating evaluation succeeds
\* creates exactly one overlay; when the call returns with no other highlight
\* overlapping it, the overlay is gone and the slot is empty: the destroy step
\* destroyed it, unless a navigation had replaced the document that held it,
\* and then the destroy step changed nothing.
C10_GoneOnReturn ==
  [][\A c \in Calls :
       /\ (calls[c].pc = "create" /\ calls'[c].pc = "join")
            => c \notin overlays /\ overlays' = overlays \cup {c} /\ tutorialDriver' = c
       /\ (calls[c].pc = "destroy" /\ calls'[c].pc = "returned" /\ ~calls[c].overlapped)
            => /\ c \notin overlays' /\ tutorialDriver' = 0
               /\ IF calls[c].discarded
                  THEN c \notin overlays /\ overlays' = overlays
                  ELSE tutorialDriver = c /\ c \in overlays]_vars

C10_Witness ==
  /\ _active /\ libLoaded /\ overlays = {} /\ tutorialDriver = 0
  /\ \A c \in Calls : calls[c].op = "highlight" /\ calls[c].pc = "returned"

\* C11: the step given to Driver.js has a popover exactly when a title or a
\* text was supplied (a non-empty string); then the popover carries title,
\* text, side and align as supplied, and otherwise the step has no popover and
\* the overlay is configured overlay-only.
C11_PopoverIffTitleOrText ==
  driverCall # Null =>
    IF options.title \notin {Absent, ""} \/ options.text \notin {Absent, ""}
    THEN /\ driverCall.popover =
              [title |-> options.title, description |-> options.text,
               side |-> options.side, align |-> options.align]
         /\ driverCall.popoverClass = Absent
    ELSE /\ driverCall.popover = Undefined
         /\ driverCall.popoverClass = "tutorial-no-popover"

C11_Witness ==
  /\ driverCall # Null
  /\ options.title = "" /\ options.text = "X" /\ options.side = Absent
  /\ driverCall.popover # Undefined

\* C12: a navigation event of the main frame leaves the injection flag false
\* and one of another frame leaves it unchanged; the flag becomes true only at
\* the end of a load sequence; and a highlight whose target resolved starts the
\* load sequence exactly when the flag is false.  So a highlight issued after a
\* main-frame navigation runs the load sequence again.
C12_NavigationResetsInjected ==
  [][/\ \A frame \in Frames :
          FrameNavigated(frame) =>
            IF frame = "subframe" THEN _injected' = _injected ELSE ~_injected'
     /\ (~_injected /\ _injected') =>
          \E c \in Calls : calls[c].pc = "waitfn" /\ calls'[c].pc = "create"
     /\ \A c \in Calls :
          (calls[c].pc = "resolve" /\ calls'[c].pc \notin {"resolve", "raised"})
            => calls'[c].pc = (IF _injected THEN "create" ELSE "style")]_vars

C12_Witness ==
  \E c, d \in Calls :
    /\ calls[c].op = "highlight" /\ calls[c].pc = "returned"
    /\ calls[d].pc = "style" /\ ~calls[d].overlapped
    /\ libLoaded /\ ~_injected

\* C13: within a navigation epoch the load runs once: a highlight call whose
\* target resolved starts the load sequence exactly when no load sequence has
\* succeeded since the last navigation event of the main frame (or since
\* construction), and no call starts it in any other way.
C13_LoadOncePerEpoch ==
  [][\A c \in Calls :
       /\ (calls[c].pc = "resolve" /\ calls'[c].pc \notin {"resolve", "raised"})
            => calls'[c].pc = (IF epochLoaded THEN "create" ELSE "style")
       /\ (calls[c].pc # "style" /\ calls'[c].pc = "style")
            => calls[c].pc = "resolve" /\ ~epochLoaded]_vars

C13_Witness ==
  \E c, d \in Calls :
    /\ calls[c].op = "highlight" /\ calls[c].pc = "returned"
    /\ calls[d].pc = "create" /\ ~calls[d].overlapped /\ ~calls[d].stale
    /\ epochLoaded

MergeOver == mpc \in {"returned", "raised"}

\* C14: a merge called with an empty chunk list returns, and it has invoked no
\* subprocess, made no directory and no file, built no command and produced no
\* output file.
C14_EmptyListNoWork ==
  (Len(chunks) = 0 /\ mpc \notin {"idle", "called"}) =>
    /\ mpc = "returned"
    /\ ran = {}
    /\ ~tmpDir /\ diskFiles = {} /\ tmpFiles = <<>>
    /\ cmd = Null
    /\ output = "none"

C14_Witness == Len(chunks) = 0 /\ mpc = "returned"

\* C15: when the merge is over, on whatever path, no temporary file and no
\* scratch directory remains.
C15_NothingLeftBehind == MergeOver => (~tmpDir /\ diskFiles = {})

\* C16: a merge of a non-empty list returns normally only if the probe and
\* the encode both succeeded; when one of them failed the merge ends raising.
C16_SubprocessFailureRaises ==
  /\ (Len(chunks) > 0 /\ mpc = "returned")
       => probeResult.ok /\ ran = {"ffprobe", "ffmpeg"} /\ output = "complete"
  /\ (MergeOver /\ error \in {"probe", "encode"}) => mpc = "raised"
  /\ ("ffprobe" \in ran /\ ~probeResult.ok) => mpc = "raised" /\ error = "probe"

C16_Witness == mpc = "raised" /\ error = "encode" /\ probeResult.ok

\* probe outputs that are no number, or a number that is zero or negative:
\* white space around a text with no digit other than 0, or that starts with
\* the letter or with the minus sign
C17_NoPositiveNumber(out) ==
  LET t == trim(out)
  IN \/ \A k \in 1..Len(t) : t[k] # "7"
     \/ (t # <<>> /\ t[1] \in {"N", "-"})

\* C17: when the probe succeeds with an output that is unparsable, zero or
\* negative, the merge does not raise because of the probe: it goes on, and
\* the command it builds has no silent input.
C17_BadProbeOutputGoesOn ==
  (probeResult.ok /\ C17_NoPositiveNumber(probeResult.out)) =>
    /\ error # "probe"
    /\ mpc \notin {"called", "idle"}
    /\ mpc = "raised" => error \in {"mkdtemp", "write", "encode"}
    /\ cmd # Null =>
         /\ \A k \in 1..Len(cmd.inputs) : cmd.inputs[k].kind # "anullsrc"
         /\ "ffmpeg" \in ran

C17_Witness ==
  /\ mpc = "returned" /\ output = "complete"
  /\ probeResult.ok /\ probeResult.out = <<"N">>

C18_SilencePresent == \E k \in 1..Len(cmd.inputs) : cmd.inputs[k].kind = "anullsrc"

\* C18: the command has one delay filter per chunk; the filter of chunk i
\* delays by chunks[i].offsetMs and reads input i+2 when the silent input is
\* present and i+1 when not, and that input is the temporary file that holds
\* the buffer of chunk i; input 0 is the video.
C18_OneDelayPerChunk ==
  cmd # Null =>
    /\ Len(cmd.delays) = Len(chunks)
    /\ cmd.inputs[1].kind = "video"
    /\ \A i \in 0..(Len(chunks) - 1) :
         LET f == cmd.delays[i + 1]
         IN /\ f.delay = chunks[i + 1].offsetMs
            /\ f.out = i
            /\ f.in = i + (IF C18_SilencePresent THEN 2 ELSE 1)
            /\ f.in + 1 <= Len(cmd.inputs)
            /\ cmd.inputs[f.in + 1].kind = "file"
            /\ mpc = "cleanup" =>
                 [name |-> cmd.inputs[f.in + 1].file, content |-> chunks[i + 1].buffer]
                   \in diskFiles

C18_Witness ==
  /\ cmd # Null /\ mpc = "cleanup" /\ Len(chunks) = 2
  /\ C18_SilencePresent
  /\ chunks[1].offsetMs # chunks[2].offsetMs /\ chunks[1].buffer # chunks[2].buffer

C19_SilentInputs ==
  {k \in 1..Len(cmd.inputs) : cmd.inputs[k].kind = "anullsrc"}

\* C19: with a probed duration D that is a number > 0 the command has exactly
\* one silent input, of length D, and mixes it with the N delayed chunks (N+1
\* mix inputs); otherwise it has no silent input and mixes the N delayed
\* chunks; the mix has normalization off.
C19_SilentBedIffKnown ==
  cmd # Null =>
    /\ cmd.amix.normalize = 0
    /\ Len(cmd.amix.labels) = cmd.amix.inputs
    /\ IF ~videoDuration.nan /\ videoDuration.val > 0
       THEN /\ Cardinality(C19_SilentInputs) = 1
            /\ \A k \in C19_SilentInputs : cmd.inputs[k].t = videoDuration
            /\ cmd.amix.inputs = Len(chunks) + 1
            /\ cmd.amix.labels[1] = [in |-> 1]
       ELSE /\ C19_SilentInputs = {}
            /\ cmd.amix.inputs = Len(chunks)
    /\ \A i \in 1..Len(chunks) : \E k \in 1..Len(cmd.amix.labels) :
         cmd.amix.labels[k] = [a |-> i - 1]

C19_Witness ==
  /\ cmd # Null /\ Len(chunks) = 2
  /\ ~videoDuration.nan /\ videoDuration.val > 0
  /\ cmd.amix.inputs = 3

\* C20: every narration of the local backend eventually completes: a pending
\* page.evaluate of _speakWebSpeechApi eventually settles.
C20_LocalNarrationCompletes ==
  \A c \in Calls :
    (calls[c].narr \in WebSpeechPending) ~> (calls[c].narr \notin WebSpeechPending)

\* C21: every narration of the remote backend eventually completes: a pending
\* synthesis or playback eventually settles, whatever the synthesis service
\* and the playback events do.
C21_RemoteNarrationCompletes ==
  \A c \in Calls :
    (calls[c].narr \in {"synth", "play"}) ~> (calls[c].narr \notin {"synth", "play"})

\* C22: a local narration waits for the voices only when the voice catalog is
\* empty at its start; when the catalog is still empty at the end of that wait
\* the narration resolves at once: no utterance is made, the call does not
\* raise (a call that has not raised before does not raise at this step)
\* and the ledger is as it was.  With a non-empty catalog at the start the
\* utterance is made without a wait.
C22_NoVoicesSkips ==
  [][\A c \in Calls :
       /\ (calls[c].narr = "wsa" /\ ~calls[c].stale /\ StartsWith(c, "some"))
            => calls'[c].narr = "utter"
       /\ (calls[c].narr = "wsa" /\ calls'[c].narr = "voices") => StartsWith(c, "none")
       /\ (calls[c].narr = "voices" /\ ~calls[c].stale /\ WaitEndsWith(c, "none"))
            => /\ calls'[c].narr = "done"
               /\ calls[c].pc # "raised" => calls'[c].pc # "raised"
               /\ calls[c].pc = "speaking" => calls'[c].pc = "returned"
               /\ _audioChunks' = _audioChunks
       /\ (calls[c].narr = "voices" /\ calls'[c].narr = "utter") => WaitEndsWith(c, "some")
    ]_vars

C22_Witness ==
  \E c \in Calls :
    /\ _ttsBackend = "web-speech-api" /\ calls[c].pc = "join"
    /\ calls[c].narr = "done" /\ calls[c].skipped /\ _audioChunks = <<>>

\* C23: the start instant is set at most once: once this._startTime holds a
\* start instant (a value > 0), no step changes it, a later setStartTime()
\* call included.
C23_StartSetOnce == [][_startTime > 0 => _startTime' = _startTime]_vars

\* C24: every chunk of the ledger has an offset >= 0, whatever values
\* setStartTime() was given and whenever the narrations were dispatched: a
\* narration dispatched with a start instant later than the clock stores no
\* chunk.
C24_OffsetsNotNegative ==
  /\ \A i \in Ledger : _audioChunks[i].offsetMs >= 0
  /\ \A i \in Ledger : _audioChunks[i].disp.start <= _audioChunks[i].disp.at

C24_Witness ==
  \E c \in Calls :
    /\ calls[c].narr = "play"
    /\ calls[c].disp.start > calls[c].disp.at
    /\ calls[c].offsetMs < 0
    /\ \A i \in Ledger : _audioChunks[i].disp.nseq # calls[c].disp.nseq
    /\ _audioChunks # <<>>

C29_FixedAtConstruction ==
  [][/\ _active' = _active
     /\ _ttsBackend' = _ttsBackend
     /\ \A c \in Calls :
          /\ calls'[c].narr \in {"synth", "play"} => _active /\ _ttsBackend = "edge-tts"
          /\ calls'[c].narr \in WebSpeechPending
               => _active /\ _ttsBackend = "web-speech-api"
    ]_vars

C29_Witness ==
  \E c, d \in Calls :
    /\ calls[c].narr = "play" /\ calls[c].stale
    /\ calls[d].narr = "synth"
    /\ everSet /\ returned # "none" /\ now > 1 /\ ~_injected

\* C30: the overlay of a highlight call is destroyed on every exit path: once
\* the call has raised, its overlay is not alive and the slot does not hold
\* it.
C30_DestroyedOnEveryExit ==
  \A c \in Calls :
    (calls[c].op = "highlight" /\ calls[c].pc = "raised")
      => (c \notin overlays /\ tutorialDriver # c)

\* the merge is between its call and its return or throw
MergeRunning == mpc \in {"called", "mkdtemp", "write", "cleanup"}

\* C25: in the tutorialObj fixture mergeAudioWithVideo is called at most once,
\* and only by the teardown after use() resolved, page.close() resolved and
\* video.saveAs() wrote the video; it is given the ledger; and while it runs no
\* step of the session runs: the ledger, the calls and the clock stand still.
C25_MergeAfterSession ==
  [][/\ (mpc = "idle" /\ mpc' # "idle")
          => /\ mpc' = "called"
             /\ fpc = "saving" /\ fpc' = "merge"
             /\ pageClosed /\ videoFile' = "saved"
             /\ chunks' = _audioChunks
     /\ mpc # "idle" => (mpc' # "idle" /\ (mpc' = "called" => mpc = "called"))
     /\ MergeRunning => UNCHANGED <<_audioChunks, calls, now, fpc>>
    ]_vars

C25_Witness ==
  /\ fpc = "merge" /\ mpc = "write" /\ Len(tmpFiles) = 1
  /\ Len(chunks) = 1 /\ chunks = _audioChunks
  /\ \E c \in Calls : calls[c].narr = "synth" /\ calls[c].offsetMs >= 0

\* C26: when mergeAudioWithVideo throws in the teardown, the teardown ends
\* without raising: the catch block warns, no narrated video is attached and
\* the video saved at videoPath stays.
C26_MergeFailureRecovered ==
  [][/\ (fpc = "merge" /\ mpc = "raised" /\ fpc' # fpc)
          => (fpc' = "done" /\ warned')
     /\ (mpc' = "raised" /\ fpc' # "none")
          => (fpc' \in {"merge", "done"} /\ ~attached' /\ videoFile' = "saved")
     /\ fpc' # "raised"
    ]_vars

C26_Witness ==
  /\ fpc = "done" /\ mpc = "raised" /\ error = "probe"
  /\ warned /\ ~attached /\ videoFile = "saved" /\ output = "none"

\* the chunks of the ledger are measured from the instant the fixture recorded
C28_FromSetup ==
  /\ fpc # "setup" => (everSet /\ _startTime > 0)
  /\ fpc = "setup" => \A c \in Calls : calls[c].op = "idle"
  /\ \A i \in Ledger :
       /\ _audioChunks[i].disp.set
       /\ _audioChunks[i].disp.start = _startTime
       /\ _audioChunks[i].offsetMs = _audioChunks[i].disp.at - _startTime
       /\ _audioChunks[i].offsetMs >= 0

C31_SlotOverwritten ==
  [][\A c \in Calls :
       /\ (calls[c].pc = "create" /\ calls'[c].pc = "join")
            => /\ tutorialDriver' = c
               /\ overlays' = overlays \cup {c}
       /\ (calls[c].pc = "destroy" /\ calls'[c].pc = "returned")
            => /\ overlays' = overlays \ {tutorialDriver}
               /\ tutorialDriver' = 0
       /\ (c \in overlays /\ tutorialDriver # c /\ c \notin overlays')
            => (overlays' = {} /\ ~libLoaded')
       /\ (tutorialDriver # c /\ tutorialDriver' = c) => calls[c].pc = "create"
    ]_vars

C31_Witness ==
  /\ \A c \in Calls : calls[c].op = "highlight" /\ calls[c].pc = "returned"
  /\ Cardinality(overlays) = 1
  /\ tutorialDriver = 0
  /\ libLoaded

\* a step of the load sequence of call c fails
C32_LoadFails(c) ==
  calls[c].pc \in {"style", "script", "waitfn"} /\ calls' = Upd(c, loadFailure(calls[c]))

\* C32 as stated: when a step of the load sequence fails the call raises, no
\* overlay is created and the injection flag is false afterwards.
C32_LoadFailureLeavesFlagFalse ==
  [][\A c \in Calls :
       C32_LoadFails(c)
         => /\ calls'[c].pc = "raised"
            /\ ~_injected'
            /\ UNCHANGED <<overlays, tutorialDriver>>
    ]_vars

\* C32: when a step of the load sequence fails the call raises at that step,
\* it has created no overlay and it does not set the injection flag: the flag
\* is false afterwards unless an overlapping highlight call completed its own
\* load sequence in the meantime; and a highlight call whose target resolves
\* while the flag is false starts the load sequence.
C32_LoadFailureSetsNoFlag ==
  [][\A c \in Calls :
       /\ C32_LoadFails(c)
            => /\ calls'[c].pc = "raised" /\ calls'[c].loadFailed
               /\ UNCHANGED <<_injected, overlays, tutorialDriver>>
               /\ c \notin overlays'
               /\ _injected' => calls[c].overlapped
       /\ (calls[c].pc \in {"style", "script", "waitfn"} /\ calls'[c].pc # calls[c].pc)
            => calls'[c].pc \in {"script", "waitfn", "create", "raised"}
       /\ (calls[c].pc = "resolve" /\ calls'[c].pc \notin {"resolve", "raised"})
            => calls'[c].pc = IF _injected THEN "create" ELSE "style"
    ]_vars

C32_Witness ==
  \E c, d \in Calls :
    /\ calls[c].pc = "raised" /\ calls[c].loadFailed
    /\ calls[d].pc = "style" /\ ~calls[d].overlapped
    /\ ~_injected /\ overlays = {} /\ tutorialDriver = 0

\* C33: whenever the injection flag is set, the library is loaded in the
\* page's current document: what the load sequence injects, the style sheet
\* and the script with its global, is there, also when a navigation of the
\* main frame arrives while a load sequence is in progress.
C33_InjectedImpliesLoaded == _injected => (libLoaded /\ styleLoaded)

\* the synthesis of call c's narration succeeds / fails
C34_SynthOk(c) == calls[c].narr = "synth" /\ calls'[c].narr = "play"
C34_SynthFails(c) == calls[c].narr = "synth" /\ calls'[c].narr = "done"

\* C34 as stated: a remote narration dispatched after a start instant was
\* recorded appends exactly one chunk when its synthesis succeeds.
C34_OneChunkWhenStartRecorded ==
  [][\A c \in Calls :
       (C34_SynthOk(c) /\ calls[c].disp.set /\ calls[c].disp.start > 0)
         => Len(_audioChunks') = Len(_audioChunks) + 1
    ]_vars

\* C34: a remote narration whose synthesis succeeds appends exactly one
\* chunk, at that step and so before the playback is dispatched, when at its
\* dispatch this._startTime was > 0 and not later than the clock, and nothing
\* otherwise; a failed synthesis appends nothing; the end of the playback,
\* whatever it is, leaves the ledger as it was, so the chunk of a narration in
\* playback is in the ledger and stays; no narration has two chunks.
C34_ChunkBeforePlayback ==
  [][/\ \A c \in Calls :
          /\ C34_SynthOk(c)
               => _audioChunks' =
                    IF calls[c].disp.start > 0 /\ calls[c].disp.start <= calls[c].disp.at
                    THEN Append(_audioChunks,
                                [buffer |-> calls[c].speech,
                                 offsetMs |-> calls[c].disp.at - calls[c].disp.start,
                                 disp |-> calls[c].disp])
                    ELSE _audioChunks
          /\ C34_SynthFails(c) => _audioChunks' = _audioChunks
          /\ (calls[c].narr = "play" /\ calls'[c].narr # "play")
               => _audioChunks' = _audioChunks
          /\ (calls'[c].narr = "play" /\ calls'[c].offsetMs >= 0)
               => \E i \in 1..Len(_audioChunks') : _audioChunks'[i].disp = calls'[c].disp
     /\ \A i, j \in 1..Len(_audioChunks') :
          _audioChunks'[i].disp.nseq = _audioChunks'[j].disp.nseq => i = j
    ]_vars

C34_Witness ==
  /\ narrSeq = 1 /\ Len(_audioChunks) = 1
  /\ \E c \in Calls : calls[c].op = "speak" /\ calls[c].pc = "returned"
                      /\ calls[c].narr = "done"

\* C35: on a session of the local backend the ledger is empty in every
\* reachable state, whatever highlight(), speak() and setStartTime() calls are
\* made and however each narration ends.
C35_LocalLedgerEmpty == _ttsBackend = "web-speech-api" => _audioChunks = <<>>

C35_Witness ==
  /\ _ttsBackend = "web-speech-api" /\ _startTime > 0 /\ _startTime < now
  /\ narrSeq = 2 /\ _audioChunks = <<>>
  /\ \E c, d \in Calls : /\ calls[c].op = "speak" /\ calls[c].narr = "done"
                         /\ calls[d].op = "highlight" /\ calls[d].narr = "failed"

\* C36: setStartTime(t) with t <= 0 counts as no start instant: a remote
\* narration dispatched while this._startTime <= 0 appends nothing when its
\* synthesis succeeds, also when a positive start instant had been recorded
\* before; every chunk of the ledger was dispatched under a start instant > 0.
C36_NonPositiveStartIsUnset ==
  [][/\ \A c \in Calls :
          (calls[c].narr = "synth" /\ calls'[c].narr = "play" /\ calls[c].disp.start <= 0)
            => (calls[c].offsetMs = -1 /\ _audioChunks' = _audioChunks)
     /\ \A c \in Calls :
          (calls[c].narr # "synth" /\ calls'[c].narr = "synth" /\ _startTime <= 0)
            => calls'[c].offsetMs = -1
     /\ \A i \in 1..Len(_audioChunks') : _audioChunks'[i].disp.start > 0
    ]_vars

C36_Witness ==
  /\ Len(_audioChunks) = 1 /\ _audioChunks[1].disp.nseq = 1
  /\ _startTime <= 0 /\ everSet
  /\ \E c \in Calls :
       /\ calls[c].narr = "play" /\ calls[c].disp.nseq = 2
       /\ calls[c].disp.set /\ calls[c].disp.start = 0

\* C37: when a navigation of the main frame replaces the document while the
\* overlay of a highlight call is displayed, the overlay and the slot go with
\* the old document and the injection flag is reset; the destroy step of that
\* call finds the slot empty and changes nothing; and the call returns
\* normally: the navigation does not make its join fail, so the narration
\* whose evaluation the navigation destroyed does not reject the call.
C37_NavigationDuringDisplay ==
  [][\A c \in Calls :
       /\ (c \in overlays /\ calls[c].pc = "join" /\ ~calls[c].discarded
           /\ calls'[c].discarded)
            => (overlays' = {} /\ tutorialDriver' = 0 /\ ~_injected' /\ ~libLoaded')
       /\ (calls[c].discarded /\ calls[c].pc = "destroy" /\ calls'[c].pc = "returned"
           /\ tutorialDriver = 0)
            => UNCHANGED <<overlays, tutorialDriver>>
       /\ (calls[c].discarded /\ calls[c].stale /\ calls[c].pc = "join")
            => calls'[c].narr # "failed"
    ]_vars

\* the teardown of the fixture goes on to close the page exactly when the
\* session is active, the backend is edge-tts, the ledger is not empty and the
\* page has a video; the merge is invoked only in a teardown that went on; a
\* teardown that did not go on leaves the page open, saves no video, runs no
\* subprocess and attaches nothing
C38_Gate ==
  /\ \A video \in Videos :
       TeardownWith(video)
         => (fpc' = "closing"
               <=> (_active /\ _ttsBackend = "edge-tts" /\ Len(_audioChunks) > 0
                    /\ video = "video"))
  /\ (mpc # "called" /\ mpc' = "called" /\ fpc' # "none")
       => (fpc = "saving" /\ _active /\ _ttsBackend = "edge-tts"
           /\ Len(_audioChunks) > 0 /\ videoFile' = "saved")
  /\ (fpc = "body" /\ fpc' = "done")
       => (~pageClosed' /\ videoFile' = "none" /\ mpc' = "idle" /\ ran' = {}
           /\ diskFiles' = {} /\ ~attached' /\ ~warned')
  /\ fpc = "done" => UNCHANGED vars

\* C38 as stated: the teardown invokes the merge if and only if the session is
\* active, the backend is edge-tts, the ledger is not empty and a recorded
\* video exists, so a teardown that went on to close the page always reaches
\* the merge; in every other case it closes no page, saves no video, runs no
\* subprocess and attaches nothing.
C38_MergeIff ==
  [][/\ C38_Gate
     /\ fpc \in {"closing", "saving"} => fpc' \in {"closing", "saving", "merge"}
    ]_vars

\* C38, amended: the merge is invoked only if the four conditions hold; when
\* they hold the teardown closes the page and saves the video, and invokes the
\* merge provided both of these resolve (a rejection of either ends the
\* teardown in the catch block with no merge); in every other case it closes no
\* page, saves no video, runs no subprocess and attaches nothing.
C38_MergeOnlyIf ==
  [][/\ C38_Gate
     /\ (fpc \in {"closing", "saving"} /\ fpc' \notin {"closing", "saving"})
          => \/ fpc = "saving" /\ fpc' = "merge" /\ mpc' = "called" /\ pageClosed
             \/ fpc' = "done" /\ warned' /\ mpc' = "idle" /\ ~attached'
    ]_vars

C38_Witness ==
  /\ fpc = "done" /\ ~warned /\ ~attached /\ ~pageClosed /\ mpc = "idle"
  /\ _active /\ _ttsBackend = "edge-tts" /\ Len(_audioChunks) > 0

====
